---- MODULE Spec2Model ----
(***************************************************************************)
(* The tool-dispatch layer of google-calendar-mcp (src/index.js): the      *)
(* call_tool request handler and the four handlers it routes to, with the  *)
(* Calendar Client (googleapis) as the environment that settles the        *)
(* promise each handler awaits.                                            *)
(***************************************************************************)
EXTENDS Integers, Sequences, FiniteSets, TLC

VARIABLES
  pc,     \* pc[d]: "idle" (no request yet), "awaiting" (suspended at the await), "done"
  call,   \* call[d]: request.params of dispatch d: name, arguments
  sent,   \* sent[d]: the Calendar Client calls dispatch d has issued, in order
  resp,   \* resp[d]: the promise dispatch d awaits: pending, fulfilled or rejected
  outs,   \* outs[d]: what dispatch d has handed back: ToolResults and protocol errors
  now     \* the wall clock read by new Date()

vars == <<pc, call, sent, resp, outs, now>>

----------------------------------------------------------------------------
(* Bounds of the model *)

MaxCalls == 2       \* dispatches that may be in flight together
MaxClock == 1       \* last clock reading
MaxItems == 2       \* largest maxResults a caller asks for
MaxAttendees == 2   \* longest attendee list a caller passes

DefaultMaxResults == 10

Dispatches == 1..MaxCalls

----------------------------------------------------------------------------
(* JavaScript values, all of one shape so that any two can be compared *)

JsValue(k, s, n, l) == [kind |-> k, str |-> s, num |-> n, list |-> l]
Undefined == JsValue("undefined", "", 0, <<>>)
Null == JsValue("null", "", 0, <<>>)
Str(s) == JsValue("string", s, 0, <<>>)
Num(n) == JsValue("number", "", n, <<>>)
Arr(l) == JsValue("array", "", 0, l)

\* ToBoolean: what `if (v)` and `v || w` test.  An array is an object, and
\* every object is truthy, the empty array included.
Truthy(v) ==
  CASE v.kind = "undefined" -> FALSE
    [] v.kind = "null" -> FALSE
    [] v.kind = "string" -> v.str # ""
    [] v.kind = "number" -> v.num # 0
    [] OTHER -> TRUE

\* Only an array has a map method among the values modelled.
HasMap(v) == v.kind = "array"

Or(v, w) == IF Truthy(v) THEN v ELSE w

----------------------------------------------------------------------------
(* Argument bags: request.params.arguments, which a request may omit *)

ArgKeys == {"eventId", "summary", "location", "description", "start", "end",
            "attendees", "maxResults", "timeMin", "timeMax"}

\* A bag holding the given fields; reading any other key gives undefined.
Bag(fields) ==
  [defined |-> TRUE,
   bag |-> [k \in ArgKeys |-> IF k \in DOMAIN fields THEN fields[k] ELSE Undefined]]

NoArguments == [defined |-> FALSE, bag |-> [k \in ArgKeys |-> Undefined]]

\* args.k
Get(args, k) == args.bag[k]

\* A key counts as present in the arguments when reading it gives a value.
Present(args, k) == args.defined /\ Get(args, k) # Undefined

----------------------------------------------------------------------------
(* Environment of the process *)

\* Intl.DateTimeFormat().resolvedOptions().timeZone
LocalTimeZone == "Europe/Berlin"

\* new Date().toISOString() at clock reading t
ToISOString(t) == Str("2024-01-01T00:00:0" \o ToString(t) \o ".000Z")

----------------------------------------------------------------------------
(* Promises returned by the Calendar Client *)

Pending == [state |-> "pending"]
Fulfilled(data) == [state |-> "fulfilled", data |-> data]
Rejected(message) == [state |-> "rejected", message |-> message]

\* What the synchronous part of a handler ends in: a request handed to the
\* Calendar Client, or an exception thrown before any request was made.
Awaiting(method, params) == [threw |-> FALSE, method |-> method, params |-> params]
Threw(message) == [threw |-> TRUE, message |-> message]

----------------------------------------------------------------------------
(* ToolResults *)

\* A template literal `${lit}${val}`
Template(lit, val) == [form |-> "template", lit |-> lit, val |-> val]

TextItem(text) == [type |-> "text", text |-> text]

SuccessResult(text) == [content |-> <<TextItem(text)>>]
ErrorResult(lit, message) ==
  [content |-> <<TextItem(Template(lit, Str(message)))>>, isError |-> TRUE]

IsError(r) == "isError" \in DOMAIN r /\ r.isError

\* Where a run of an async function stops: at its await, at a return, or at
\* an exception that leaves it.
Suspend(started) == [step |-> "await", method |-> started.method, params |-> started.params]
Return(result) == [step |-> "return", result |-> result]
Raise(error) == [step |-> "throw", error |-> error]

\* As TryAwait, with the catch clause letting a rejection escape
TryAwaitRethrow(started, settled, after, lit) ==
  IF started.threw THEN Return(ErrorResult(lit, started.message))
  ELSE IF settled.state = "pending" THEN Suspend(started)
  ELSE IF settled.state = "rejected"
    THEN Raise([code |-> "InternalError", message |-> Template("", Str(settled.message))])
  ELSE Return(after)

\* As TryAwait, with the call issued again after a rejection
TryAwaitRetry(started, settled, after, lit) ==
  IF started.threw THEN Return(ErrorResult(lit, started.message))
  ELSE IF settled.state \in {"pending", "rejected"} THEN Suspend(started)
  ELSE Return(after)

\* As TryAwait, giving up on a promise that has not settled yet
TryAwaitTimeout(started, settled, after, lit) ==
  IF started.threw THEN Return(ErrorResult(lit, started.message))
  ELSE IF settled.state = "pending" THEN Return(ErrorResult(lit, "timed out"))
  ELSE IF settled.state = "rejected" THEN Return(ErrorResult(lit, settled.message))
  ELSE Return(after)

\* try { ...; await ...; return after } catch (error) { return ErrorResult(lit, error.message) }
\* run against the promise's present state.
TryAwait(started, settled, after, lit) ==
  IF started.threw THEN Return(ErrorResult(lit, started.message))
  ELSE IF settled.state = "pending" THEN Suspend(started)
  ELSE IF settled.state = "rejected" THEN Return(ErrorResult(lit, settled.message))
  ELSE Return(after)

----------------------------------------------------------------------------
(* The event objects built for the provider *)

\* (email) => ({ email })
EmailObject(email) == [email |-> email]

\* As MapEmails, building the list back to front
RECURSIVE MapEmailsReversed(_)
MapEmailsReversed(l) ==
  IF l = <<>> THEN <<>>
  ELSE MapEmailsReversed(Tail(l)) \o <<[email |-> Head(l)]>>

\* attendees.map((email) => ({ email }))
RECURSIVE MapEmails(_)
MapEmails(l) ==
  IF l = <<>> THEN <<>> ELSE <<EmailObject(Head(l))>> \o MapEmails(Tail(l))

\* { dateTime: v, timeZone: Intl.DateTimeFormat().resolvedOptions().timeZone }
TimePoint(v) == [dateTime |-> v, timeZone |-> LocalTimeZone]

\* obj.k of a provider record, undefined when the record has no such key
Field(obj, k) == IF k \in DOMAIN obj THEN obj[k] ELSE Undefined

\* An object literal restricted to the keys in ks
Only(obj, ks) == [k \in (ks \cap DOMAIN obj) |-> obj[k]]

DestructureError(key) ==
  "Cannot destructure property '" \o key \o "' of 'args' as it is undefined."

\* The TypeError of attendees.map(...) on a value that has no map method
MapError(v) ==
  IF v.kind = "null" THEN "Cannot read properties of null (reading 'map')"
  ELSE "attendees.map is not a function"

----------------------------------------------------------------------------
(* handleCreateEvent *)

CreateEventStart(args) ==
  IF ~args.defined THEN Threw(DestructureError("summary"))
  ELSE
    LET attendees == IF Get(args, "attendees") = Undefined THEN Arr(<<>>)
                     ELSE Get(args, "attendees")
    IN IF ~HasMap(attendees) THEN Threw(MapError(attendees))
       ELSE Awaiting("insert",
              [calendarId |-> "primary",
               requestBody |->
                 [summary |-> Get(args, "summary"),
                  location |-> Get(args, "location"),
                  description |-> Get(args, "description"),
                  start |-> TimePoint(Get(args, "start")),
                  end |-> TimePoint(Get(args, "end")),
                  attendees |-> MapEmails(attendees.list)]])

handleCreateEvent(args, settled) ==
  TryAwait(CreateEventStart(args), settled,
           SuccessResult(Template("Event created successfully. Event ID: ",
                                  Field(settled.data, "id"))),
           "Error creating event: ")

----------------------------------------------------------------------------
(* handleUpdateEvent *)

\* As UpdateEventPatch, with every field assigned unconditionally
UpdateEventPatchAll(args) ==
  [summary |-> Get(args, "summary"),
   location |-> Get(args, "location"),
   description |-> Get(args, "description"),
   start |-> TimePoint(Get(args, "start")),
   end |-> TimePoint(Get(args, "end")),
   attendees |-> MapEmails(Get(args, "attendees").list)]

\* As UpdateEventPatch, testing presence (!== undefined) instead of truthiness
UpdateEventPatchPresent(args) ==
  Only(UpdateEventPatchAll(args),
       {k \in {"summary", "location", "description", "start", "end", "attendees"} :
          Get(args, k) # Undefined})

\* const event = {}; if (summary) event.summary = summary; ...
UpdateEventPatch(args) ==
  LET all == [summary |-> Get(args, "summary"),
              location |-> Get(args, "location"),
              description |-> Get(args, "description"),
              start |-> TimePoint(Get(args, "start")),
              end |-> TimePoint(Get(args, "end")),
              attendees |-> MapEmails(Get(args, "attendees").list)]
  IN Only(all, {k \in DOMAIN all : Truthy(Get(args, k))})

UpdateEventStart(args) ==
  IF ~args.defined THEN Threw(DestructureError("eventId"))
  ELSE IF Truthy(Get(args, "attendees")) /\ ~HasMap(Get(args, "attendees"))
    THEN Threw(MapError(Get(args, "attendees")))
  ELSE Awaiting("patch",
         [calendarId |-> "primary",
          eventId |-> Get(args, "eventId"),
          requestBody |-> UpdateEventPatch(args)])

handleUpdateEvent(args, settled) ==
  TryAwait(UpdateEventStart(args), settled,
           SuccessResult(Template("Event updated successfully. Event ID: ",
                                  Field(settled.data, "id"))),
           "Error updating event: ")

----------------------------------------------------------------------------
(* handleDeleteEvent *)

\* As DeleteEventStart, with the calendar's identifier passed as the event's
DeleteEventStartWrongId(args) ==
  IF ~args.defined THEN Threw(DestructureError("eventId"))
  ELSE Awaiting("delete", [calendarId |-> "primary", eventId |-> Str("primary")])

DeleteEventStart(args) ==
  IF ~args.defined THEN Threw(DestructureError("eventId"))
  ELSE Awaiting("delete",
         [calendarId |-> "primary", eventId |-> Get(args, "eventId")])

handleDeleteEvent(args, settled) ==
  TryAwait(DeleteEventStart(args), settled,
           SuccessResult(Template("Event deleted successfully. Event ID: ",
                                  Get(args, "eventId"))),
           "Error deleting event: ")

----------------------------------------------------------------------------
(* handleListEvents *)

\* args?.k || fallback
ListArg(args, k, fallback) == Or(Get(args, k), fallback)

ListEventsStart(args, t) ==
  Awaiting("list",
    [calendarId |-> "primary",
     timeMin |-> ListArg(args, "timeMin", ToISOString(t)),
     timeMax |-> Get(args, "timeMax"),
     maxResults |-> ListArg(args, "maxResults", Num(DefaultMaxResults)),
     singleEvents |-> TRUE,
     orderBy |-> "startTime"])

ProjectedFields == {"id", "summary", "start", "end", "location"}

\* As ProjectEvent, with the provider's record passed through whole
ProjectEventWhole(event) == event

\* (event) => ({ id: event.id, summary: event.summary, ... })
ProjectEvent(event) == [k \in ProjectedFields |-> Field(event, k)]

RECURSIVE MapProject(_)
MapProject(items) ==
  IF items = <<>> THEN <<>>
  ELSE <<ProjectEvent(Head(items))>> \o MapProject(Tail(items))

\* JSON.stringify of an object leaves out the keys whose value is undefined
StringifyObject(obj) == Only(obj, {k \in DOMAIN obj : obj[k] # Undefined})

RECURSIVE StringifyEach(_)
StringifyEach(events) ==
  IF events = <<>> THEN <<>>
  ELSE <<StringifyObject(Head(events))>> \o StringifyEach(Tail(events))

\* JSON.stringify(response.data.items?.map(...), null, 2); undefined when
\* the response carries no items
ListEventsText(data) ==
  IF "items" \in DOMAIN data
    THEN [form |-> "json", value |-> StringifyEach(MapProject(data.items))]
    ELSE [form |-> "undefined"]

handleListEvents(args, settled, t) ==
  TryAwait(ListEventsStart(args, t), settled,
           SuccessResult(ListEventsText(settled.data)),
           "Error fetching calendar events: ")

----------------------------------------------------------------------------
(* The call_tool request handler *)

\* The names list_tools returns
ListTools == <<"list_events", "create_event", "update_event", "delete_event">>
ToolNames == {ListTools[i] : i \in DOMAIN ListTools}

McpError(code, message) == [code |-> code, message |-> message]

\* As CallTool, with the default case falling back to a handler
CallToolDefaultList(name, args, settled, t) ==
  CASE name = "create_event" -> handleCreateEvent(args, settled)
    [] name = "update_event" -> handleUpdateEvent(args, settled)
    [] name = "delete_event" -> handleDeleteEvent(args, settled)
    [] OTHER -> handleListEvents(args, settled, t)

\* switch (request.params.name), run against the awaited promise's state
CallTool(name, args, settled, t) ==
  CASE name = "list_events" -> handleListEvents(args, settled, t)
    [] name = "create_event" -> handleCreateEvent(args, settled)
    [] name = "update_event" -> handleUpdateEvent(args, settled)
    [] name = "delete_event" -> handleDeleteEvent(args, settled)
    [] OTHER -> Raise(McpError("MethodNotFound", Template("Unknown tool: ", Str(name))))

----------------------------------------------------------------------------
(* Inputs: the requests callers send *)

Emails == {"a@x.io", "b@x.io"}

RECURSIVE SeqsUpTo(_, _)
SeqsUpTo(S, n) ==
  IF n = 0 THEN {<<>>}
  ELSE LET shorter == SeqsUpTo(S, n - 1)
       IN shorter \cup {Append(l, x) : l \in shorter, x \in S}

\* What a caller may put under "attendees": nothing, a list of addresses, or
\* a value that is no list (the schema is advertised, never enforced).
AttendeeInputs ==
  {Undefined, Null, Str(""), Str("a@x.io")}
    \cup {Arr(l) : l \in SeqsUpTo(Emails, MaxAttendees)}

\* A string field left out, given empty, or given a value
TextInputs(v) == {Undefined, Str(""), Str(v)}

ListBags ==
  {Bag([maxResults |-> m, timeMin |-> tmin, timeMax |-> tmax]) :
     m \in {Undefined, Num(0)} \cup {Num(n) : n \in 1..MaxItems},
     tmin \in {Undefined, Str("2024-01-01T00:00:00Z")},
     tmax \in {Undefined, Str("2024-02-01T00:00:00Z")}}

CreateBags ==
  {Bag([summary |-> Str("Test"), start |-> Str("2024-01-01T10:00:00Z"),
        end |-> Str("2024-01-01T11:00:00Z"), location |-> l, attendees |-> a]) :
     l \in {Undefined, Str("Room 1")}, a \in AttendeeInputs}

UpdateBags ==
  {Bag([eventId |-> Str("abc123"), summary |-> s, location |-> l,
        description |-> de, start |-> st, end |-> en, attendees |-> a]) :
     s \in TextInputs("New Title"), l \in TextInputs("Room 1"),
     de \in TextInputs("Agenda"), st \in TextInputs("2024-01-01T10:00:00Z"),
     en \in TextInputs("2024-01-01T11:00:00Z"), a \in AttendeeInputs}

DeleteBags == {Bag([eventId |-> e]) : e \in {Undefined, Str("abc123"), Str("evt2")}}

UnknownNames == {"get_event", "LIST_EVENTS"}

Request(name, args) == [name |-> name, arguments |-> args]

\* Every request of the model
Requests ==
  {Request("list_events", a) : a \in ListBags \cup {NoArguments}}
    \cup {Request("create_event", a) : a \in CreateBags \cup {NoArguments}}
    \cup {Request("update_event", a) : a \in UpdateBags \cup {NoArguments}}
    \cup {Request("delete_event", a) : a \in DeleteBags \cup {NoArguments}}
    \cup {Request(n, a) : n \in UnknownNames,
                          a \in {NoArguments, Bag([eventId |-> Str("abc123")])}}

\* The few requests the concurrent specification interleaves
FewRequests ==
  {Request("list_events", NoArguments),
   Request("create_event", NoArguments),
   Request("update_event", Bag([eventId |-> Str("abc123"),
                                summary |-> Str("New Title")])),
   Request("delete_event", Bag([eventId |-> Str("abc123")])),
   Request("get_event", NoArguments)}

----------------------------------------------------------------------------
(* Environment: how the Calendar Client settles a call *)

ProviderErrors == {"Not Found", "invalid_grant"}
EventIds == {"abc123", "evt2"}

\* Event records as the provider returns them: more fields than are
\* projected, and not always every projected one.
ProviderEvents ==
  {[id |-> Str("evt1"), summary |-> Str("Standup"),
    start |-> Str("2024-01-01T10:00:00Z"), end |-> Str("2024-01-01T11:00:00Z"),
    location |-> Str("Room 1"), status |-> Str("confirmed"),
    htmlLink |-> Str("https://calendar/evt1")],
   [id |-> Str("evt2"), start |-> Str("2024-01-02T10:00:00Z"),
    end |-> Str("2024-01-02T11:00:00Z"), etag |-> Str("x1")]}

\* The data a fulfilled call of the given method may carry.  The provider is
\* not assumed to honour maxResults: it may return one record more than the
\* largest number asked for.
ProviderData(method) ==
  CASE method = "list" ->
         {[items |-> l] : l \in SeqsUpTo(ProviderEvents, MaxItems + 1)}
           \cup {[kind |-> Str("calendar#events")]}
    [] method = "delete" -> {[x \in {} |-> Undefined]}
    [] OTHER -> {[id |-> Str(e)] : e \in EventIds}

Settlements(method) ==
  {Fulfilled(data) : data \in ProviderData(method)}
    \cup {Rejected(m) : m \in ProviderErrors}

FewSettlements(method) ==
  {Rejected("Not Found")}
    \cup CASE method = "list" ->
                {Fulfilled([items |-> <<>>])}
           [] method = "delete" -> {Fulfilled([x \in {} |-> Undefined])}
           [] OTHER -> {Fulfilled([id |-> Str("abc123")])}

----------------------------------------------------------------------------
(* State *)

NoRequest == Request("", NoArguments)

Init ==
  /\ pc = [d \in Dispatches |-> "idle"]
  /\ call = [d \in Dispatches |-> NoRequest]
  /\ sent = [d \in Dispatches |-> <<>>]
  /\ resp = [d \in Dispatches |-> Pending]
  /\ outs = [d \in Dispatches |-> <<>>]
  /\ now = 0

ToolResult(result) == [kind |-> "result", result |-> result]
ProtocolError(error) == [kind |-> "error", error |-> error]

\* As RunTo, with the request and the result kept in storage that every
\* dispatch shares instead of in the dispatch's own frame
RunToShared(d, r) ==
  IF r.step = "await"
    THEN /\ sent' = [x \in Dispatches |->
                       IF x = d \/ sent[x] # <<>>
                         THEN <<[method |-> r.method, params |-> r.params]>>
                         ELSE <<>>]
         /\ resp' = [resp EXCEPT ![d] = Pending]
         /\ pc' = [pc EXCEPT ![d] = "awaiting"]
         /\ outs' = outs
    ELSE /\ outs' = [x \in Dispatches |->
                       IF x = d \/ outs[x] # <<>>
                         THEN <<IF r.step = "throw" THEN ProtocolError(r.error)
                                ELSE ToolResult(r.result)>>
                         ELSE <<>>]
         /\ pc' = [pc EXCEPT ![d] = "done"]
         /\ UNCHANGED <<sent, resp>>

\* Dispatch d runs until it stops at r: a request goes to the Calendar
\* Client and the dispatch is suspended on a fresh promise, or the
\* request handler ends with a ToolResult or with an exception.
RunTo(d, r) ==
  IF r.step = "await"
    THEN /\ sent' = [sent EXCEPT ![d] = Append(@, [method |-> r.method, params |-> r.params])]
         /\ resp' = [resp EXCEPT ![d] = Pending]
         /\ pc' = [pc EXCEPT ![d] = "awaiting"]
         /\ outs' = outs
    ELSE /\ outs' = [outs EXCEPT ![d] =
                       Append(@, IF r.step = "throw" THEN ProtocolError(r.error)
                                 ELSE ToolResult(r.result))]
         /\ pc' = [pc EXCEPT ![d] = "done"]
         /\ UNCHANGED <<sent, resp>>

\* A call_tool request arrives and its handler runs up to its await
Dispatch(d, request) ==
  /\ pc[d] = "idle"
  /\ call' = [call EXCEPT ![d] = request]
  /\ RunTo(d, CallTool(request.name, request.arguments, Pending, now))
  /\ UNCHANGED now

\* The Calendar Client settles the promise dispatch d awaits
Settle(d, settled) ==
  /\ pc[d] = "awaiting"
  /\ resp[d] = Pending
  /\ resp' = [resp EXCEPT ![d] = settled]
  /\ UNCHANGED <<pc, call, sent, outs, now>>

\* The handler of dispatch d continues after its await.  What follows the
\* await reads the arguments and the settled promise, never the request
\* built before it.
Resume(d) ==
  /\ pc[d] = "awaiting"
  /\ resp[d] # Pending
  /\ RunTo(d, CallTool(call[d].name, call[d].arguments, resp[d], now))
  /\ UNCHANGED <<call, now>>

\* Time passes
Tick ==
  /\ now < MaxClock
  /\ now' = now + 1
  /\ UNCHANGED <<pc, call, sent, resp, outs>>

LastMethod(d) == sent[d][Len(sent[d])].method

\* The inputs of each step, drawn for the dispatches that can take it
Arriving(d, requests) == IF pc[d] = "idle" THEN requests ELSE {}
Outstanding(d) == pc[d] = "awaiting" /\ resp[d] = Pending

\* Any number of dispatches in flight, a few kinds of request
Next ==
  \/ \E d \in Dispatches : \E request \in Arriving(d, FewRequests) :
       Dispatch(d, request)
  \/ \E d \in Dispatches :
       \E settled \in (IF Outstanding(d) THEN FewSettlements(LastMethod(d)) ELSE {}) :
         Settle(d, settled)
  \/ \E d \in Dispatches : Resume(d)
  \/ Tick

Spec == Init /\ [][Next]_vars

\* One dispatch, every request and every settlement of the model
NextOne ==
  \/ \E request \in Arriving(1, Requests) : Dispatch(1, request)
  \/ \E settled \in (IF Outstanding(1) THEN Settlements(LastMethod(1)) ELSE {}) :
       Settle(1, settled)
  \/ Resume(1)
  \/ Tick

SpecOne == Init /\ [][NextOne]_vars

\* The event loop runs a continuation whose promise has settled
FairSpec == Spec /\ \A d \in Dispatches : WF_vars(Resume(d))

----------------------------------------------------------------------------
(* Vocabulary of the properties *)

Started(d) == pc[d] # "idle"
Done(d) == pc[d] = "done"
Registered(d) == call[d].name \in {"list_events", "create_event", "update_event", "delete_event"}
Arg(d, k) == Get(call[d].arguments, k)
IsToolResult(o) == o.kind = "result"
TheResult(d) == outs[d][1].result
TheText(d) == TheResult(d).content[1].text
Succeeded(d) == Done(d) /\ Len(outs[d]) = 1 /\ IsToolResult(outs[d][1]) /\ ~IsError(TheResult(d))
Failed(d) == Done(d) /\ Len(outs[d]) = 1 /\ IsToolResult(outs[d][1]) /\ IsError(TheResult(d))
Calls(d, method) == {i \in DOMAIN sent[d] : sent[d][i].method = method}

\* The requests whose handler fails while it builds the provider request:
\* create, update or delete without an argument bag, and create or update
\* with attendees that is no list (create: anything but undefined; update:
\* anything truthy).
NotAList(v) == v.kind # "array"
FailsBeforeCall(request) ==
  \/ request.name \in {"create_event", "update_event", "delete_event"}
       /\ ~request.arguments.defined
  \/ request.name = "create_event"
       /\ Get(request.arguments, "attendees") # Undefined
       /\ NotAList(Get(request.arguments, "attendees"))
  \/ request.name = "update_event"
       /\ Get(request.arguments, "attendees") \notin {Undefined, Null, Str(""), Num(0)}
       /\ NotAList(Get(request.arguments, "attendees"))

PatchFields == {"summary", "location", "description", "start", "end", "attendees"}

----------------------------------------------------------------------------
\* C1: a request whose name is none of the four registered names ends at
\* dispatch in the protocol error MethodNotFound "Unknown tool: <name>"; it
\* issues no Calendar Client call and hands back no ToolResult.
C1_UnknownToolFailsAtDispatch ==
  \A d \in Dispatches :
    (Started(d) /\ ~Registered(d)) =>
      /\ Done(d)
      /\ sent[d] = <<>>
      /\ resp[d] = Pending
      /\ Len(outs[d]) = 1
      /\ outs[d][1].kind = "error"
      /\ outs[d][1].error.code = "MethodNotFound"
      /\ outs[d][1].error.message = Template("Unknown tool: ", Str(call[d].name))

C1_Witness ==
  \E d \in Dispatches :
    /\ Done(d)
    /\ call[d].name = "get_event"
    /\ call[d].arguments.defined
    /\ outs[d] # <<>>

----------------------------------------------------------------------------
\* C2: a registered tool's handler always hands a ToolResult back and never
\* raises: a rejected provider call, or a failure before the call, gives
\* isError = true with one text item carrying the failure's message, and
\* the only protocol error that leaves dispatch is the unknown-tool error.
C2_HandlersNeverRaise ==
  \A d \in Dispatches :
    /\ \A i \in DOMAIN outs[d] :
         IF Registered(d)
           THEN /\ IsToolResult(outs[d][i])
                /\ Len(outs[d][i].result.content) = 1
                /\ outs[d][i].result.content[1].type = "text"
           ELSE outs[d][i].kind = "error" /\ outs[d][i].error.code = "MethodNotFound"
    /\ (Registered(d) /\ Done(d)) => Len(outs[d]) = 1
    /\ (Registered(d) /\ Done(d) /\ resp[d].state = "rejected") =>
         /\ IsError(TheResult(d))
         /\ TheText(d).form = "template"
         /\ TheText(d).val = Str(resp[d].message)
    /\ (Registered(d) /\ Done(d) /\ sent[d] = <<>>) =>
         /\ IsError(TheResult(d))
         /\ TheText(d).form = "template"
         /\ TheText(d).val.kind = "string"
         /\ TheText(d).val.str # ""

C2_Witness ==
  \E d \in Dispatches :
    /\ Failed(d)
    /\ call[d].name = "list_events"
    /\ resp[d] = Rejected("invalid_grant")

----------------------------------------------------------------------------
\* C3: the patch object update_event sends holds a key only for a field
\* present in the arguments, never eventId, and for eventId "abc123" with
\* only summary "New Title" it is exactly {summary: "New Title"}.
C3_PatchOnlyPresentFields ==
  \A d \in Dispatches : \A i \in Calls(d, "patch") :
    LET body == sent[d][i].params.requestBody IN
      /\ DOMAIN body \subseteq PatchFields
      /\ \A k \in DOMAIN body : Present(call[d].arguments, k)
      /\ "eventId" \notin DOMAIN body
      /\ call[d].arguments = Bag([eventId |-> Str("abc123"), summary |-> Str("New Title")])
           => body = [summary |-> Str("New Title")]

C3_Witness ==
  \E d \in Dispatches :
    /\ call[d] = Request("update_event",
                         Bag([eventId |-> Str("abc123"), summary |-> Str("New Title")]))
    /\ Calls(d, "patch") # {}

----------------------------------------------------------------------------
\* C4 as claimed: a field set to an empty string or an empty value is left
\* out of the patch, so no patch sets a field to an empty value.
EmptyValues == {Str(""), Null, Num(0), Arr(<<>>)}
----------------------------------------------------------------------------
\* The Calendar Client method each tool's handler calls
MethodOf(name) ==
  CASE name = "list_events" -> "list"
    [] name = "create_event" -> "insert"
    [] name = "update_event" -> "patch"
    [] name = "delete_event" -> "delete"

\* C5 as claimed: every dispatch of a registered tool issues exactly one
\* Calendar Client call, of the tool's kind, on calendar "primary".
C5_ExactlyOneCall ==
  \A d \in Dispatches :
    (Registered(d) /\ Done(d)) =>
      /\ Len(sent[d]) = 1
      /\ sent[d][1].method = MethodOf(call[d].name)
      /\ sent[d][1].params.calendarId = "primary"

\* C5: a dispatch of a registered tool issues at most one Calendar Client
\* call, of the tool's kind and on calendar "primary": exactly one, before
\* anything is handed back and with no second call after it fails or
\* succeeds, unless the handler fails while building the request (no
\* argument bag for create, update or delete; attendees that is no list),
\* in which case it returns the error result without calling at all.
C5_AtMostOneCall ==
  \A d \in Dispatches :
    /\ Len(sent[d]) <= 1
    /\ \A i \in DOMAIN sent[d] :
         /\ Registered(d)
         /\ sent[d][i].method = MethodOf(call[d].name)
         /\ sent[d][i].params.calendarId = "primary"
    /\ (Registered(d) /\ Started(d)) =>
         IF FailsBeforeCall(call[d])
           THEN sent[d] = <<>> /\ Failed(d)
           ELSE Len(sent[d]) = 1

C5_Witness ==
  \E d \in Dispatches :
    /\ Failed(d)
    /\ call[d].name = "update_event"
    /\ resp[d] = Rejected("Not Found")
    /\ Len(sent[d]) = 1

----------------------------------------------------------------------------
\* The number of events a list_events call asks for: maxResults, 10 when
\* it is left out
AskedFor(d) == IF Arg(d, "maxResults") = Undefined THEN 10 ELSE Arg(d, "maxResults").num

\* C6 as claimed: a successful list_events with maxResults = n (positive,
\* 10 when omitted) returns at most n items, none with a field outside
\* {id, summary, start, end, location}, whatever the provider returns.
C6_AtMostMaxResultsItems ==
  \A d \in Dispatches :
    (call[d].name = "list_events" /\ Succeeded(d) /\ TheText(d).form = "json"
       /\ AskedFor(d) >= 1) =>
      /\ Len(TheText(d).value) <= AskedFor(d)
      /\ \A i \in DOMAIN TheText(d).value :
           DOMAIN TheText(d).value[i] \subseteq {"id", "summary", "start", "end", "location"}

\* C6: list_events asks the provider for maxResults = n events (10 when n
\* is omitted or 0) and a successful call returns one projected item per
\* record the provider returned, in the provider's order, so at most n
\* items whenever the provider returned at most n; no item has a field
\* outside {id, summary, start, end, location}, and each field an item has
\* is the record's.  A response without an items list gives no list at all
\* (the text is undefined).
C6_ProjectsEachReturnedRecord ==
  \A d \in Dispatches :
    call[d].name = "list_events" =>
      /\ \A i \in DOMAIN sent[d] :
           sent[d][i].params.maxResults =
             (IF Arg(d, "maxResults") \in {Undefined, Num(0)} THEN Num(10)
              ELSE Arg(d, "maxResults"))
      /\ (Done(d) /\ resp[d].state = "fulfilled" /\ "items" \notin DOMAIN resp[d].data) =>
           Succeeded(d) /\ TheText(d).form = "undefined"
      /\ (Done(d) /\ resp[d].state = "fulfilled" /\ "items" \in DOMAIN resp[d].data) =>
           LET items == resp[d].data.items IN
             /\ Succeeded(d)
             /\ TheText(d).form = "json"
             /\ Len(TheText(d).value) = Len(items)
             /\ Len(items) <= AskedFor(d) => Len(TheText(d).value) <= AskedFor(d)
             /\ \A i \in DOMAIN items :
                  LET item == TheText(d).value[i] IN
                    /\ DOMAIN item \subseteq {"id", "summary", "start", "end", "location"}
                    /\ DOMAIN item = DOMAIN items[i] \cap {"id", "summary", "start", "end", "location"}
                    /\ \A k \in DOMAIN item : item[k] = items[i][k]

C6_Witness ==
  \E d \in Dispatches :
    /\ call[d].name = "list_events"
    /\ Arg(d, "maxResults") = Num(2)
    /\ Succeeded(d)
    /\ resp[d].state = "fulfilled"
    /\ "items" \in DOMAIN resp[d].data
    /\ Len(resp[d].data.items) = 2
    /\ "htmlLink" \in DOMAIN resp[d].data.items[1]
    /\ "htmlLink" \notin DOMAIN TheText(d).value[1]

----------------------------------------------------------------------------
\* C7: the event create_event inserts has attendees equal to the input
\* list mapped element by element to {email} objects, same length and
\* order, and empty when attendees is omitted; when the insert succeeds the
\* ToolResult is a success whose text carries the identifier the provider
\* returned.
C7_CreateMapsAttendees ==
  \A d \in Dispatches :
    /\ \A i \in Calls(d, "insert") :
         LET given == IF Arg(d, "attendees") = Undefined THEN <<>>
                      ELSE Arg(d, "attendees").list
             mapped == sent[d][i].params.requestBody.attendees
         IN /\ Arg(d, "attendees").kind \in {"undefined", "array"}
            /\ Len(mapped) = Len(given)
            /\ \A j \in DOMAIN given :
                 DOMAIN mapped[j] = {"email"} /\ mapped[j].email = given[j]
    /\ (call[d].name = "create_event" /\ Done(d) /\ resp[d].state = "fulfilled") =>
         /\ Succeeded(d)
         /\ TheText(d) = Template("Event created successfully. Event ID: ", resp[d].data.id)
         /\ resp[d].data.id.str # ""

C7_Witness ==
  \E d \in Dispatches :
    /\ call[d].name = "create_event"
    /\ Arg(d, "attendees") = Arr(<<"a@x.io", "b@x.io">>)
    /\ Succeeded(d)
    /\ resp[d] = Fulfilled([id |-> Str("evt2")])

C7_WitnessOmitted ==
  \E d \in Dispatches :
    /\ call[d].name = "create_event"
    /\ Arg(d, "attendees") = Undefined
    /\ Succeeded(d)
    /\ sent[d][1].params.requestBody.attendees = <<>>

----------------------------------------------------------------------------
\* C8: delete_event with eventId = e asks the provider to delete exactly e;
\* a rejection gives isError = true with text "Error deleting event...", a
\* success gives text echoing exactly e; no other identifier is put in the
\* request or in the result.
C8_DeleteNamesTheEvent ==
  \A d \in Dispatches :
    call[d].name = "delete_event" =>
      /\ \A i \in DOMAIN sent[d] :
           /\ sent[d][i].method = "delete"
           /\ sent[d][i].params.eventId = Arg(d, "eventId")
           /\ DOMAIN sent[d][i].params = {"calendarId", "eventId"}
      /\ (Done(d) /\ resp[d].state = "rejected") =>
           /\ Failed(d)
           /\ TheText(d) = Template("Error deleting event: ", Str(resp[d].message))
      /\ (Done(d) /\ resp[d].state = "fulfilled") =>
           /\ Succeeded(d)
           /\ TheText(d) = Template("Event deleted successfully. Event ID: ", Arg(d, "eventId"))

C8_Witness ==
  \E d \in Dispatches :
    /\ call[d] = Request("delete_event", Bag([eventId |-> Str("abc123")]))
    /\ resp[d] = Rejected("Not Found")
    /\ Failed(d)

C8_WitnessSuccess ==
  \E d \in Dispatches :
    /\ call[d] = Request("delete_event", Bag([eventId |-> Str("abc123")]))
    /\ Succeeded(d)

----------------------------------------------------------------------------
\* What belongs to dispatch d
Frame(d) == <<pc[d], call[d], sent[d], resp[d], outs[d]>>

\* C9 as claimed: the request a dispatch sends and the result it returns
\* depend only on its own name and arguments and on the provider's
\* response to its own request.
C9_SameCallSameRequest ==
  \A d1, d2 \in Dispatches :
    (Started(d1) /\ Started(d2) /\ call[d1] = call[d2]) =>
      /\ sent[d1] = sent[d2]
      /\ (Done(d1) /\ Done(d2) /\ resp[d1] = resp[d2]) => outs[d1] = outs[d2]

\* A request with its timeMin blanked
SansTimeMin(r) == [r EXCEPT !.params = [k \in DOMAIN r.params \ {"timeMin"} |-> r.params[k]]]
RECURSIVE EachSansTimeMin(_)
EachSansTimeMin(rs) ==
  IF rs = <<>> THEN <<>> ELSE <<SansTimeMin(Head(rs))>> \o EachSansTimeMin(Tail(rs))

\* d is a list_events dispatch that names no timeMin of its own
AsksFromNow(d) == call[d].name = "list_events" /\ Arg(d, "timeMin") \in {Undefined, Str("")}

\* C9: concurrent dispatches are independent: under every interleaving,
\* the request a dispatch sends depends only on its own name and arguments
\* and, for list_events without timeMin, on the clock reading when it was
\* dispatched (it asks from "now"); the result it returns depends only on
\* its own name and arguments and the provider's response to its own
\* request; and no step of one dispatch changes anything that belongs to
\* another.
C9_IndependentDispatches ==
  /\ [](\A d1, d2 \in Dispatches :
          (Started(d1) /\ Started(d2) /\ call[d1] = call[d2]) =>
            /\ IF AsksFromNow(d1)
                 THEN EachSansTimeMin(sent[d1]) = EachSansTimeMin(sent[d2])
                 ELSE sent[d1] = sent[d2]
            /\ (Done(d1) /\ Done(d2) /\ resp[d1] = resp[d2]) => outs[d1] = outs[d2])
  /\ [][\A d \in Dispatches :
          (~Started(d) /\ Started(d)' /\ AsksFromNow(d)') =>
            sent[d]'[1].params.timeMin = ToISOString(now)]_vars
  /\ [][\E d \in Dispatches : \A x \in Dispatches \ {d} : Frame(x)' = Frame(x)]_vars

C9_Witness ==
  \E d1, d2 \in Dispatches :
    /\ d1 # d2
    /\ call[d1] = Request("list_events", NoArguments)
    /\ call[d2] = call[d1]
    /\ sent[d1] # sent[d2]
    /\ Succeeded(d1)
    /\ Failed(d2)

----------------------------------------------------------------------------
\* C10 as claimed: a dispatch of a registered tool produces no ToolResult
\* before its provider call has completed or failed.
C10_NoResultBeforeSettled ==
  \A d \in Dispatches :
    (Registered(d) /\ outs[d] # <<>>) => (sent[d] # <<>> /\ resp[d] # Pending)

\* C10: a dispatch of a registered tool whose handler reaches its provider
\* call produces no ToolResult before that call has completed or failed,
\* never returns while the call stays pending, and once the call completes
\* or fails eventually returns exactly one ToolResult, in one piece; a
\* dispatch whose handler fails while building the request returns its one
\* error result without any provider call.
C10_ResultOnlyAfterSettled ==
  /\ [](\A d \in Dispatches :
          (Registered(d) /\ Started(d)) =>
            /\ Len(outs[d]) <= 1
            /\ outs[d] # <<>> =>
                 /\ Done(d)
                 /\ IsToolResult(outs[d][1])
                 /\ IF FailsBeforeCall(call[d]) THEN sent[d] = <<>>
                    ELSE sent[d] # <<>> /\ resp[d] # Pending)
  /\ [][\A d \in Dispatches :
          (Registered(d) /\ sent[d] # <<>> /\ outs[d]' # outs[d]) => resp[d] # Pending]_vars
  /\ \A d \in Dispatches :
       (Registered(d) /\ resp[d] # Pending) ~> (Done(d) /\ Len(outs[d]) = 1)

C10_Witness ==
  \E d \in Dispatches :
    /\ call[d].name = "update_event"
    /\ resp[d].state = "fulfilled"
    /\ Succeeded(d)
    /\ Len(sent[d]) = 1

====
